---- MODULE Spec2Model ----
(***************************************************************************)
(* Model of fetch_steam_applist.py: the retrying fetcher (fetch_applist),  *)
(* the tolerant extractor (extract_apps), the CSV writer (write_csv) and   *)
(* the orchestration with its console-hold prompt (main).                  *)
(*                                                                         *)
(* Text is a sequence of one-character strings.  A parsed JSON value is a  *)
(* tagged record.                                                          *)
(***************************************************************************)
EXTENDS Integers, Sequences, FiniteSets, TLC

VARIABLES
    pc,           \* position of the single thread of control
    api_key,      \* args.api_key / the api_key parameter of fetch_applist
    json_flag,    \* args.json
    stdin_open,   \* environment: does input() get a line (TRUE) or EOF (FALSE)
    max_attempts, \* parameter of fetch_applist
    backoff,      \* parameter of fetch_applist (seconds)
    attempt,      \* local of fetch_applist
    requests,     \* every GET handed to the network, in order
    trace,        \* observable events, in order: stderr lines, GETs, sleeps, file writes, prompts
    data,         \* JSON returned by fetch_applist
    apps,         \* list(extract_apps(data)), or the pairs handed to write_csv
    csv_file,     \* content of the output CSV
    json_file,    \* state of steam_applist.json
    served,       \* what the network did with each GET, in order
    uncaught,     \* the exception that left the running function, "none" if none
    exit_status   \* process exit status, NoStatus while running

vars == <<pc, api_key, json_flag, stdin_open, max_attempts, backoff, attempt,
          requests, served, trace, data, apps, csv_file, json_file, uncaught,
          exit_status>>

----------------------------------------------------------------------------
(* Bounds of the model *)

MaxAttemptLimit == 3
MaxBackoff == 2
MaxEntries == 2
MaxPairs == 2
MaxNameLen == 2

(* Program constants *)

DefaultMaxAttempts == 3
DefaultBackoff == 2
DefaultTimeout == 60
DEFAULT_API_KEY == "1B27234A8D97A72C97E53BC43D646C1F"
DEFAULT_URL == "https://api.steampowered.com/ISteamApps/GetAppList/v2/"

NoStatus == 0 - 1

----------------------------------------------------------------------------
(* Text *)

DQ == "\""
CR == "\r"
LF == "\n"
SP == " "
COMMA == ","

Digits == <<"0", "1", "2", "3", "4", "5", "6", "7", "8", "9">>
DigitSet == {Digits[i] : i \in 1..10}
DigitVal(c) == (CHOOSE i \in 1..10 : Digits[i] = c) - 1
Whitespace == {SP, CR, LF, "\t"}

RECURSIVE NatText(_)
NatText(n) == IF n < 10 THEN <<Digits[n + 1]>>
              ELSE NatText(n \div 10) \o <<Digits[(n % 10) + 1]>>

\* str(n) for an int
IntText(n) == IF n < 0 THEN <<"-">> \o NatText(0 - n) ELSE NatText(n)

RECURSIVE LStrip(_)
LStrip(s) == IF s # <<>> /\ Head(s) \in Whitespace THEN LStrip(Tail(s)) ELSE s

RECURSIVE RStrip(_)
RStrip(s) == IF s # <<>> /\ s[Len(s)] \in Whitespace
             THEN RStrip(SubSeq(s, 1, Len(s) - 1)) ELSE s

\* str.strip()
Strip(s) == RStrip(LStrip(s))

RECURSIVE DigitsValue(_, _)
DigitsValue(s, acc) == IF s = <<>> THEN acc
                       ELSE DigitsValue(Tail(s), acc * 10 + DigitVal(Head(s)))

\* int(s) for a str: surrounding whitespace and one sign are accepted
ParseInt(s) ==
    LET b == Strip(s)
        signed == b # <<>> /\ Head(b) \in {"-", "+"}
        d == IF signed THEN Tail(b) ELSE b
    IN  IF d # <<>> /\ \A i \in 1..Len(d) : d[i] \in DigitSet
        THEN [ok |-> TRUE,
              v |-> IF signed /\ Head(b) = "-" THEN 0 - DigitsValue(d, 0)
                    ELSE DigitsValue(d, 0)]
        ELSE [ok |-> FALSE, v |-> 0]

----------------------------------------------------------------------------
(* Parsed JSON values and the Python operations applied to them *)

\* One record shape for every value, so that any two values can be compared:
\* t is the JSON type, and the field of that type holds the payload (b for a
\* bool, i for an int, s for a str, l for a list, d for a dict, kept as the
\* sequence of its [k, val] items in insertion order).
JV(t, b, i, s, l, d) == [t |-> t, b |-> b, i |-> i, s |-> s, l |-> l, d |-> d]
JNull == JV("null", FALSE, 0, <<>>, <<>>, <<>>)
JBool(b) == JV("bool", b, 0, <<>>, <<>>, <<>>)
JInt(n) == JV("int", FALSE, n, <<>>, <<>>, <<>>)
JStr(s) == JV("str", FALSE, 0, s, <<>>, <<>>)
JList(xs) == JV("list", FALSE, 0, <<>>, xs, <<>>)
JDict(items) == JV("dict", FALSE, 0, <<>>, <<>>, items)
Item(k, val) == [k |-> k, val |-> val]
EmptyDict == JDict(<<>>)
EmptyList == JList(<<>>)

\* bool(x)
Truthy(x) ==
    CASE x.t = "null" -> FALSE
      [] x.t = "bool" -> x.b
      [] x.t = "int" -> x.i # 0
      [] x.t = "str" -> x.s # <<>>
      [] x.t = "list" -> x.l # <<>>
      [] x.t = "dict" -> x.d # <<>>

\* a or b
PyOr(a, b) == IF Truthy(a) THEN a ELSE b

\* x has a .get method
HasGet(x) == x.t = "dict"

\* d.get(k) for a dict d: None when the key is absent
DictGet(d, k) ==
    IF \E n \in 1..Len(d.d) : d.d[n].k = k
    THEN d.d[CHOOSE n \in 1..Len(d.d) : d.d[n].k = k].val
    ELSE JNull

\* int(x): [ok |-> FALSE] stands for the TypeError / ValueError
PyInt(x) ==
    CASE x.t = "int" -> [ok |-> TRUE, v |-> x.i]
      [] x.t = "bool" -> [ok |-> TRUE, v |-> IF x.b THEN 1 ELSE 0]
      [] x.t = "str" -> ParseInt(x.s)
      [] OTHER -> [ok |-> FALSE, v |-> 0]

\* str(x), for the values a name can take after the or-chain
PyStr(x) ==
    CASE x.t = "str" -> x.s
      [] x.t = "int" -> IntText(x.i)
      [] x.t = "bool" -> IF x.b THEN <<"T", "r", "u", "e">> ELSE <<"F", "a", "l", "s", "e">>
      [] x.t = "null" -> <<"N", "o", "n", "e">>

----------------------------------------------------------------------------
(* extract_apps *)

\* line 61: appid = e.get("appid") or e.get("AppId") or e.get("AppID")
IdOf(e) == PyOr(PyOr(DictGet(e, "appid"), DictGet(e, "AppId")), DictGet(e, "AppID"))

\* line 62: name = e.get("name") or e.get("Name") or ""
NameOf(e) == PyOr(PyOr(DictGet(e, "name"), DictGet(e, "Name")), JStr(<<>>))

\* One pass of the loop body, lines 59-67.  The two lookups are outside the
\* try block: an entry without .get raises out of the generator.
ExtractEntry(e) ==
    IF ~HasGet(e) THEN [kind |-> "raise"]
    ELSE LET id == PyInt(IdOf(e))
         IN  IF id.ok THEN [kind |-> "pair", pair |-> <<id.v, Strip(PyStr(NameOf(e)))>>]
             ELSE [kind |-> "skip"]

RECURSIVE ExtractLoop(_, _)
ExtractLoop(es, acc) ==
    IF es = <<>> THEN [raised |-> FALSE, apps |-> acc]
    ELSE LET r == ExtractEntry(Head(es))
         IN  CASE r.kind = "raise" -> [raised |-> TRUE, apps |-> acc]
               [] r.kind = "pair" -> ExtractLoop(Tail(es), Append(acc, r.pair))
               [] r.kind = "skip" -> ExtractLoop(Tail(es), acc)

\* list(extract_apps(json_data)): raised is TRUE when an exception leaves the
\* generator, apps then holds what had been yielded before it.
extract_apps(json_data) ==
    LET failed == [raised |-> TRUE, apps |-> <<>>]
    IN  IF ~HasGet(json_data) THEN failed
        ELSE LET applist == PyOr(DictGet(json_data, "applist"), EmptyDict)
             IN  IF ~HasGet(applist) THEN failed
                 ELSE LET entries == PyOr(DictGet(applist, "apps"), EmptyList)
                      IN  \* a truthy str or dict iterates over str items, which have
                          \* no .get; a truthy int or bool is not iterable
                          IF entries.t # "list" THEN failed
                          ELSE ExtractLoop(entries.l, <<>>)

----------------------------------------------------------------------------
(* write_csv: csv.writer with the default dialect *)

HeaderRow == << <<"A", "p", "p", "I", "d">>, <<"N", "a", "m", "e">> >>

NeedsQuote(s) == \E i \in 1..Len(s) : s[i] \in {COMMA, DQ, CR, LF}

RECURSIVE DoubleQuotes(_)
DoubleQuotes(s) == IF s = <<>> THEN <<>>
                   ELSE (IF Head(s) = DQ THEN <<DQ, DQ>> ELSE <<Head(s)>>)
                        \o DoubleQuotes(Tail(s))

CsvField(s) == IF NeedsQuote(s) THEN <<DQ>> \o DoubleQuotes(s) \o <<DQ>> ELSE s

RECURSIVE JoinFields(_)
JoinFields(fs) == IF Len(fs) = 1 THEN CsvField(fs[1])
                  ELSE CsvField(fs[1]) \o <<COMMA>> \o JoinFields(Tail(fs))

\* w.writerow(fields): the line terminator is \r\n
CsvRow(fs) == JoinFields(fs) \o <<CR, LF>>

\* the two columns in the other order
PairRowSwapped(p) == CsvRow(<<p[2], IntText(p[1])>>)

\* line 75: w.writerow([appid, name])
PairRow(p) == CsvRow(<<IntText(p[1]), p[2]>>)

RECURSIVE PairRows(_)
PairRows(ps) == IF ps = <<>> THEN <<>> ELSE PairRow(Head(ps)) \o PairRows(Tail(ps))

\* the bytes of the file after a write_csv that completes
write_csv(ps) == CsvRow(HeaderRow) \o PairRows(ps)

----------------------------------------------------------------------------
(* Inputs *)

SeqsUpTo(S, n) == UNION {[1..k -> S] : k \in 0..n}

ApiKeys == {"", DEFAULT_API_KEY, "OTHERKEY"}

\* marks a key the entry does not hold
Absent == JV("absent", FALSE, 0, <<>>, <<>>, <<>>)

\* a dict with one key
D1(k, v) == JDict(<<Item(k, v)>>)

\* an entry holding those of the five keys whose value is not Absent
MkEntry(appid, AppId, AppID, name, Name) ==
    JDict(SelectSeq(<<Item("appid", appid), Item("AppId", AppId), Item("AppID", AppID),
                      Item("name", name), Item("Name", Name)>>,
                    LAMBDA it : it.val.t # "absent"))

IdVals == {Absent, JInt(0), JInt(7), JStr(<<"b">>), JStr(<<"1", "2">>)}
NameVals == {Absent, JStr(<<>>), JStr(<<SP, "P", SP>>), JStr(<<"X">>)}

\* every combination of the five keys the extractor reads
WideEntries ==
    {MkEntry(c[1], c[2], c[3], c[4], c[5]) :
        c \in IdVals \X IdVals \X IdVals \X NameVals \X NameVals}

\* identifier and name values of the remaining JSON types
OddEntries ==
    {MkEntry(v, Absent, Absent, JStr(<<"X">>), Absent) :
        v \in {JNull, JBool(TRUE), JBool(FALSE), JStr(<<>>), JStr(<<SP, "-", "3", SP>>),
               JStr(<<"+", "4">>), JStr(<<"-">>), EmptyList, EmptyDict, JInt(0 - 5)}}
    \cup {MkEntry(JInt(7), Absent, Absent, v, JStr(<<"X">>)) :
        v \in {JNull, JInt(0), JInt(15), JBool(FALSE), JBool(TRUE),
               JStr(<<SP>>), JStr(<<"a", COMMA, DQ>>)}}

\* entries that are not JSON objects
NonDictEntries == {JNull, JInt(5), JStr(<<"x">>), EmptyList, JBool(TRUE)}

HalfLife == <<"H", "a", "l", "f", "-", "L", "i", "f", "e">>
Portal == <<"P", "o", "r", "t", "a", "l">>

\* the three entries of the end-to-end scenario
E2EEntries ==
    << MkEntry(JInt(10), Absent, Absent, JStr(HalfLife), Absent),
       MkEntry(JStr(<<"b", "a", "d">>), Absent, Absent, JStr(<<"X">>), Absent),
       MkEntry(Absent, Absent, JInt(20), Absent, JStr(<<SP>> \o Portal \o <<SP>>)) >>

NarrowEntries ==
    {E2EEntries[1], E2EEntries[2], E2EEntries[3],
     MkEntry(JInt(0), Absent, Absent, JStr(<<"Z">>), Absent),
     MkEntry(Absent, Absent, Absent, JStr(<<"N">>), Absent),
     JNull}

EntryLists ==
    {<<e>> : e \in WideEntries \cup OddEntries \cup NonDictEntries}
    \cup SeqsUpTo(NarrowEntries, MaxEntries) \cup {E2EEntries}

Resp(es) == D1("applist", D1("apps", JList(es)))

E2EResponse == Resp(E2EEntries)

OddShapes == {JNull, JBool(FALSE), JBool(TRUE), JInt(0), JInt(5), JStr(<<>>), JStr(<<"x">>),
              EmptyList, JList(<<JInt(1)>>), EmptyDict, D1("k", JInt(1))}

\* responses whose entry container is missing or of another shape
ContainerResponses ==
    OddShapes
    \cup {D1("applist", v) : v \in OddShapes}
    \cup {D1("applist", D1("apps", v)) : v \in OddShapes}

Responses == ContainerResponses \cup {Resp(es) : es \in EntryLists}

\* what the server can answer with a 2xx status and a JSON body
FetchResponses ==
    {E2EResponse, EmptyDict, D1("applist", JStr(<<"x">>)), JNull,
     Resp(<<MkEntry(JInt(0), Absent, Absent, JStr(<<"Z">>), Absent)>>)}

FailureKinds == {"transport_error", "http_error", "invalid_json"}

NameAlphabet == {"a", COMMA, DQ, CR, LF, SP}
Names == SeqsUpTo(NameAlphabet, MaxNameLen)
WidePairs == {<<i, n>> : i \in {0 - 3, 0, 10}, n \in Names}
NarrowPairs == {<<10, HalfLife>>, <<20, Portal>>, <<0, <<>> >>, <<0 - 3, <<"a", COMMA, DQ>> >>}
PairLists == {<<p>> : p \in WidePairs} \cup SeqsUpTo(NarrowPairs, MaxPairs)

----------------------------------------------------------------------------
(* fetch_applist *)

Ev(e, n) == [ev |-> e, n |-> n]

\* the request with the key attached as a query parameter
BuildRequestWithKey(key) ==
    [url |-> DEFAULT_URL,
     headers |-> ("User-Agent" :> "fetch_steam_applist/1.0") @@ ("Accept" :> "application/json"),
     params |-> <<[k |-> "key", val |-> key]>>,
     timeout |-> DefaultTimeout]

\* lines 33-37 and 43: requests.get(DEFAULT_URL, headers=headers, timeout=timeout)
BuildRequest(key) ==
    [url |-> DEFAULT_URL,
     headers |-> ("User-Agent" :> "fetch_steam_applist/1.0") @@ ("Accept" :> "application/json"),
     params |-> <<>>,
     timeout |-> DefaultTimeout]

\* line 30: if api_key
KeyNote(key) == IF key # "" THEN <<Ev("stderr.key_ignored", 0)>> ELSE <<>>

\* line 40: while attempt < max_attempts
LoopGuard(a, limit) == a < limit

\* the exhaustion test off by one
ExhaustedLate(a, limit) == a > limit

\* line 51: if attempt >= max_attempts: raise
Exhausted(a, limit) == a >= limit

\* a constant delay instead of a linear one
SleepConstant(b, a) == b

\* line 53: time.sleep(backoff * attempt)
SleepFor(b, a) == b * a

\* lines 30-39: the diagnostic about the ignored key, the headers, attempt = 0
FetchBegin ==
    /\ pc = "fetch_begin"
    /\ trace' = trace \o KeyNote(api_key)
    /\ attempt' = 0
    /\ pc' = "fetch_loop"
    /\ UNCHANGED <<api_key, json_flag, stdin_open, max_attempts, backoff, requests,
                   served, data, apps, csv_file, json_file, uncaught, exit_status>>

\* lines 40-48: one pass of the loop in which the GET succeeds with a JSON body
FetchAttemptOk ==
    /\ pc = "fetch_loop"
    /\ LoopGuard(attempt, max_attempts)
    /\ attempt' = attempt + 1
    /\ requests' = Append(requests, BuildRequest(api_key))
    /\ \E body \in FetchResponses :
          /\ served' = Append(served, [kind |-> "ok", body |-> body])
          /\ data' = body
    /\ trace' = Append(trace, Ev("get", attempt'))
    /\ pc' = "fetch_returned"
    /\ UNCHANGED <<api_key, json_flag, stdin_open, max_attempts, backoff,
                   apps, csv_file, json_file, uncaught, exit_status>>

\* lines 40-53: one pass of the loop in which the GET, the status check or the
\* JSON parse raises
FetchAttemptFail ==
    /\ pc = "fetch_loop"
    /\ LoopGuard(attempt, max_attempts)
    /\ attempt' = attempt + 1
    /\ requests' = Append(requests, BuildRequest(api_key))
    /\ \E k \in FailureKinds :
          /\ served' = Append(served, [kind |-> k, body |-> JNull])
          /\ uncaught' = IF Exhausted(attempt', max_attempts) THEN k ELSE uncaught
    /\ IF Exhausted(attempt', max_attempts)
       THEN /\ trace' = trace \o <<Ev("get", attempt'), Ev("stderr.attempt_failed", attempt')>>
            /\ pc' = "fetch_raised"
       ELSE /\ trace' = trace \o <<Ev("get", attempt'), Ev("stderr.attempt_failed", attempt'),
                                   Ev("sleep", SleepFor(backoff, attempt'))>>
            /\ pc' = "fetch_loop"
    /\ UNCHANGED <<api_key, json_flag, stdin_open, max_attempts, backoff,
                   data, apps, csv_file, json_file, exit_status>>

----------------------------------------------------------------------------
(* main *)

\* lines 85-87: the progress line, then the call of fetch_applist(args.api_key)
MainStart ==
    /\ pc = "main"
    /\ trace' = Append(trace, Ev("stderr.fetching", 0))
    /\ pc' = "fetch_begin"
    /\ UNCHANGED <<api_key, json_flag, stdin_open, max_attempts, backoff, attempt, requests,
                   served, data, apps, csv_file, json_file, uncaught, exit_status>>

\* input("Press Enter to exit..."): the prompt is shown, then a line is read
Prompt(tr) == Append(tr, Ev("prompt", 0))

\* lines 88-91: the fetch failure is logged, the prompt is not guarded
MainFetchFailed ==
    /\ pc = "fetch_raised"
    /\ trace' = Prompt(Append(trace, Ev("stderr.fetch_failed", 0)))
    /\ IF stdin_open
       THEN exit_status' = 2 /\ uncaught' = "none"
       ELSE exit_status' = 1 /\ uncaught' = "input"
    /\ pc' = "exited"
    /\ UNCHANGED <<api_key, json_flag, stdin_open, max_attempts, backoff, attempt, requests,
                   served, data, apps, csv_file, json_file>>

\* lines 93-98: the optional dump of the raw JSON
MainDump ==
    /\ pc = "fetch_returned"
    /\ json_flag
    /\ \/ /\ json_file' = "written"
          /\ trace' = Append(trace, Ev("dump", 1))
       \/ /\ json_file' \in {json_file, "partial"}
          /\ trace' = trace \o <<Ev("dump", 0), Ev("stderr.json_failed", 0)>>
    /\ pc' = "extract"
    /\ UNCHANGED <<api_key, json_flag, stdin_open, max_attempts, backoff, attempt, requests,
                   served, data, apps, csv_file, uncaught, exit_status>>

\* lines 100-101: apps = list(extract_apps(data)), outside any try
MainExtract ==
    /\ \/ pc = "extract"
       \/ pc = "fetch_returned" /\ ~json_flag
    /\ LET r == extract_apps(data)
       IN  IF r.raised
           THEN /\ trace' = Append(trace, Ev("extract", 0))
                /\ apps' = apps
                /\ uncaught' = "extract"
                /\ exit_status' = 1
                /\ pc' = "exited"
           ELSE /\ trace' = trace \o <<Ev("extract", 1), Ev("stderr.fetched", Len(r.apps))>>
                /\ apps' = r.apps
                /\ uncaught' = uncaught
                /\ exit_status' = exit_status
                /\ pc' = "write"
    /\ UNCHANGED <<api_key, json_flag, stdin_open, max_attempts, backoff, attempt, requests,
                   served, data, csv_file, json_file>>

\* lines 103-104 with 70-75: write_csv(args.out, apps)
MainWriteCsv ==
    /\ pc = "write"
    /\ \/ /\ csv_file' = write_csv(apps)
          /\ trace' = Append(trace, Ev("write_csv", 1))
          /\ pc' = "written"
       \/ /\ csv_file' \in {csv_file, <<>>, CsvRow(HeaderRow)}
          /\ trace' = Append(trace, Ev("write_csv", 0))
          /\ pc' = "write_raised"
    /\ UNCHANGED <<api_key, json_flag, stdin_open, max_attempts, backoff, attempt, requests,
                   served, data, apps, json_file, uncaught, exit_status>>

\* lines 105-108: the write failure is logged, the prompt is not guarded
MainWriteFailed ==
    /\ pc = "write_raised"
    /\ trace' = Prompt(Append(trace, Ev("stderr.csv_failed", 0)))
    /\ IF stdin_open
       THEN exit_status' = 3 /\ uncaught' = "none"
       ELSE exit_status' = 1 /\ uncaught' = "input"
    /\ pc' = "exited"
    /\ UNCHANGED <<api_key, json_flag, stdin_open, max_attempts, backoff, attempt, requests,
                   served, data, apps, csv_file, json_file>>

\* lines 110-116: the completion line, the guarded prompt, return 0
MainDone ==
    /\ pc = "written"
    /\ trace' = Prompt(Append(trace, Ev("stderr.done", 0)))
    /\ exit_status' = 0
    /\ pc' = "exited"
    /\ UNCHANGED <<api_key, json_flag, stdin_open, max_attempts, backoff, attempt, requests,
                   served, data, apps, csv_file, json_file, uncaught>>

----------------------------------------------------------------------------
(* Specifications *)

Fresh ==
    /\ attempt = 0
    /\ requests = <<>>
    /\ served = <<>>
    /\ trace = <<>>
    /\ csv_file = <<>>
    /\ json_file = "absent"
    /\ uncaught = "none"
    /\ exit_status = NoStatus

\* the program: main() called with parsed arguments, fetch_applist with its defaults
Init ==
    /\ pc = "main"
    /\ api_key \in ApiKeys
    /\ json_flag \in BOOLEAN
    /\ stdin_open \in BOOLEAN
    /\ max_attempts = DefaultMaxAttempts
    /\ backoff = DefaultBackoff
    /\ data = JNull
    /\ apps = <<>>
    /\ Fresh

Next ==
    \/ MainStart
    \/ FetchBegin
    \/ FetchAttemptOk
    \/ FetchAttemptFail
    \/ MainFetchFailed
    \/ MainDump
    \/ MainExtract
    \/ MainWriteCsv
    \/ MainWriteFailed
    \/ MainDone

Spec == Init /\ [][Next]_vars

\* fetch_applist alone, over its parameters
InitFetch ==
    /\ pc = "fetch_begin"
    /\ api_key \in ApiKeys
    /\ json_flag = FALSE
    /\ stdin_open = TRUE
    /\ max_attempts \in 1..MaxAttemptLimit
    /\ backoff \in 1..MaxBackoff
    /\ data = JNull
    /\ apps = <<>>
    /\ Fresh

NextFetch == FetchBegin \/ FetchAttemptOk \/ FetchAttemptFail

SpecFetch == InitFetch /\ [][NextFetch]_vars

\* extract_apps and write_csv alone, over their inputs
InitPipeline ==
    /\ api_key = DEFAULT_API_KEY
    /\ json_flag = FALSE
    /\ stdin_open = TRUE
    /\ max_attempts = DefaultMaxAttempts
    /\ backoff = DefaultBackoff
    /\ Fresh
    /\ \/ pc = "extract" /\ data \in Responses /\ apps = <<>>
       \/ pc = "write" /\ data = JNull /\ apps \in PairLists

NextPipeline == MainExtract \/ MainWriteCsv

SpecPipeline == InitPipeline /\ [][NextPipeline]_vars

----------------------------------------------------------------------------
(* Reading a CSV file back: the state machine of a standard CSV parser       *)
(* (comma delimiter, double-quote quoting with doubled quotes, rows ended by *)
(* \r, \n or \r\n), used to state the round trip of write_csv.               *)

\* One row, scanned from position i in state st: its fields, and the
\* position after its terminator.
RECURSIVE ScanRow(_, _, _, _, _)
ScanRow(s, i, st, field, row) ==
    IF i > Len(s) THEN [row |-> Append(row, field), next |-> i]
    ELSE
    LET c == s[i]
        nl == c \in {CR, LF}
        after == IF c = CR /\ i < Len(s) /\ s[i + 1] = LF THEN i + 2 ELSE i + 1
        EndRow == [row |-> Append(row, field), next |-> after]
        EndField == ScanRow(s, i + 1, "start_field", <<>>, Append(row, field))
        Add(next) == ScanRow(s, i + 1, next, Append(field, c), row)
    IN  IF st = "start_record" /\ nl THEN [row |-> <<>>, next |-> after]
        ELSE IF st \in {"start_record", "start_field"}
        THEN IF nl THEN EndRow
             ELSE IF c = DQ THEN ScanRow(s, i + 1, "in_quoted", field, row)
             ELSE IF c = COMMA THEN EndField
             ELSE Add("in_field")
        ELSE IF st = "in_field"
        THEN IF nl THEN EndRow ELSE IF c = COMMA THEN EndField ELSE Add("in_field")
        ELSE IF st = "in_quoted"
        THEN IF c = DQ THEN ScanRow(s, i + 1, "quote_in_quoted", field, row)
             ELSE Add("in_quoted")
        ELSE \* quote_in_quoted
             IF c = DQ THEN Add("in_quoted")
             ELSE IF c = COMMA THEN EndField
             ELSE IF nl THEN EndRow
             ELSE Add("in_field")

RECURSIVE ScanRows(_, _, _)
ScanRows(s, i, rows) ==
    IF i > Len(s) THEN rows
    ELSE LET r == ScanRow(s, i, "start_record", <<>>, <<>>)
         IN  ScanRows(s, r.next, Append(rows, r.row))

\* the rows of a file, each a sequence of fields
ParseCsv(s) == ScanRows(s, 1, <<>>)

----------------------------------------------------------------------------
(* Reading the trace *)

EvAt(e) == {i \in DOMAIN trace : trace[i].ev = e}
Happened(e, n) == \E i \in DOMAIN trace : trace[i] = Ev(e, n)
Failed(k) == served[k].kind # "ok"
Sleeps == SelectSeq(trace, LAMBDA x : x.ev = "sleep")
FetchEnded == pc \in {"fetch_returned", "fetch_raised"}

----------------------------------------------------------------------------
(* C1: with attempt limit N, fetch_applist issues at most N GETs.  When all  *)
(* N attempts fail it raises the error of the last one after exactly N       *)
(* requests; when attempts 1..k-1 fail and attempt k succeeds it returns the *)
(* JSON of attempt k after exactly k requests.  In both cases no further     *)
(* request can be issued.                                                    *)
C1_AttemptLimit ==
    /\ Len(requests) = attempt
    /\ Len(served) = attempt
    /\ attempt <= max_attempts
    /\ (attempt = max_attempts /\ \A k \in 1..attempt : Failed(k)) =>
          /\ pc = "fetch_raised"
          /\ uncaught = served[max_attempts].kind
    /\ (attempt >= 1 /\ ~Failed(attempt)) =>
          /\ pc = "fetch_returned"
          /\ data = served[attempt].body
          /\ uncaught = "none"
    /\ pc = "fetch_raised" => attempt = max_attempts /\ \A k \in 1..attempt : Failed(k)
    /\ pc = "fetch_returned" => \A k \in 1..(attempt - 1) : Failed(k)
    /\ FetchEnded => ~ENABLED (FetchAttemptOk \/ FetchAttemptFail)

\* all three attempts of a limit of three failed and the last error was raised
C1_Witness ==
    /\ pc = "fetch_raised"
    /\ max_attempts = 3
    /\ Len(requests) = 3
    /\ uncaught = served[3].kind

(* C8: after failed attempt k < N the failure is logged with its number,     *)
(* then one sleep of backoff * k follows, then attempt k + 1; there is no    *)
(* sleep after a successful attempt or after the last failed one, so the     *)
(* waits are backoff, 2 * backoff, ... (2 then 4 with the defaults).         *)
C8_LinearBackoff ==
    /\ \A i \in EvAt("get") :
          LET k == trace[i].n
          IN  IF Failed(k)
              THEN /\ i + 1 <= Len(trace)
                   /\ trace[i + 1] = Ev("stderr.attempt_failed", k)
                   /\ IF k < max_attempts
                      THEN /\ i + 2 <= Len(trace)
                           /\ trace[i + 2] = Ev("sleep", backoff * k)
                           /\ i + 3 <= Len(trace) => trace[i + 3] = Ev("get", k + 1)
                      ELSE Len(trace) = i + 1
              ELSE Len(trace) = i
    /\ \A j \in EvAt("sleep") :
          /\ j >= 3
          /\ trace[j - 1].ev = "stderr.attempt_failed"
          /\ trace[j - 2].ev = "get"
    /\ Len(Sleeps) = Cardinality({k \in 1..attempt : Failed(k) /\ k < max_attempts})
    /\ \A j \in 1..Len(Sleeps) : Sleeps[j].n = backoff * j
    /\ \A j \in 1..(Len(Sleeps) - 1) : Sleeps[j].n < Sleeps[j + 1].n

\* two failures then a success with the defaults: the waits were 2 then 4
C8_Witness ==
    /\ pc = "fetch_returned"
    /\ attempt = 3
    /\ backoff = 2
    /\ Sleeps = <<Ev("sleep", 2), Ev("sleep", 4)>>

(* C6: every GET of every attempt is the same request whatever the           *)
(* credential: the fixed URL, no query parameter, the two fixed headers,     *)
(* none of them the credential.  A non-empty credential adds exactly one     *)
(* diagnostic line, before the first GET; an empty one adds none.            *)
C6_KeyNeverSent ==
    /\ \A i \in DOMAIN requests :
          /\ requests[i].url = DEFAULT_URL
          /\ requests[i].params = <<>>
          /\ DOMAIN requests[i].headers = {"User-Agent", "Accept"}
          /\ requests[i].headers["User-Agent"] = "fetch_steam_applist/1.0"
          /\ requests[i].headers["Accept"] = "application/json"
          /\ requests[i] = requests[1]
          /\ api_key # "" =>
                /\ requests[i].url # api_key
                /\ \A h \in DOMAIN requests[i].headers : requests[i].headers[h] # api_key
    /\ pc # "fetch_begin" =>
          /\ Cardinality(EvAt("stderr.key_ignored")) = (IF api_key # "" THEN 1 ELSE 0)
          /\ \A i \in EvAt("stderr.key_ignored") : \A j \in EvAt("get") : i < j
          /\ \A i \in DOMAIN trace :
                trace[i].ev \in {"stderr.key_ignored", "get", "stderr.attempt_failed", "sleep"}

\* three GETs went out for a non-default credential
C6_Witness ==
    /\ api_key = "OTHERKEY"
    /\ Len(requests) = 3
    /\ Happened("stderr.key_ignored", 0)

----------------------------------------------------------------------------
(* Reading a response the way the claims describe it *)

HasKey(e, k) == \E n \in 1..Len(e.d) : e.d[n].k = k
IdKeys == <<"appid", "AppId", "AppID">>
NameKeys == <<"name", "Name">>
PresentIn(e, keys) == {n \in 1..Len(keys) : HasKey(e, keys[n])}

\* the value of the first key of keys, in priority order, that e holds
FirstPresent(e, keys, default) ==
    IF PresentIn(e, keys) = {} THEN default
    ELSE DictGet(e, keys[CHOOSE n \in PresentIn(e, keys) : \A m \in PresentIn(e, keys) : n <= m])

WellFormed(d) ==
    /\ d.t = "dict"
    /\ DictGet(d, "applist").t = "dict"
    /\ DictGet(DictGet(d, "applist"), "apps").t = "list"
    /\ \A n \in 1..Len(DictGet(DictGet(d, "applist"), "apps").l) :
          DictGet(DictGet(d, "applist"), "apps").l[n].t = "dict"

EntriesOf(d) == DictGet(DictGet(d, "applist"), "apps").l
RawEntries(d) == IF DictGet(DictGet(d, "applist"), "apps").t = "list" THEN EntriesOf(d) ELSE <<>>

Extracted == EvAt("extract") # {}

\* an identifier under exactly one key, coercible by int(); a name under at
\* most one key, a str when present
ValidEntry(e) ==
    /\ Cardinality(PresentIn(e, IdKeys)) = 1
    /\ PyInt(FirstPresent(e, IdKeys, JNull)).ok
    /\ Cardinality(PresentIn(e, NameKeys)) <= 1
    /\ FirstPresent(e, NameKeys, JStr(<<>>)).t = "str"

PairOf(e) == <<PyInt(FirstPresent(e, IdKeys, JNull)).v,
               Strip(FirstPresent(e, NameKeys, JStr(<<>>)).s)>>

(* C2: when every raw entry has an int-coercible identifier (0 included)     *)
(* under one of appid, AppId, AppID and a name that is a string or absent,   *)
(* extraction yields one pair per entry, in the order of the entries: the    *)
(* coerced identifier and the trimmed name, empty when absent.               *)
C2_OnePairPerValidEntry ==
    (Extracted /\ WellFormed(data) /\ \A n \in 1..Len(EntriesOf(data)) : ValidEntry(EntriesOf(data)[n]))
    => /\ pc # "exited"
       /\ apps = [n \in 1..Len(EntriesOf(data)) |-> PairOf(EntriesOf(data)[n])]

(* C3: extraction never fails: whatever the response, no exception leaves   *)
(* extract_apps and the run goes on to the CSV write; a container that is    *)
(* missing or of the wrong shape gives no pair, and there are never more     *)
(* pairs than raw entries.  (Stated for responses that are JSON objects.)    *)
C3_ExtractNeverFails ==
    (Extracted /\ data.t = "dict") =>
       /\ uncaught # "extract"
       /\ pc \in {"write", "written", "write_raised"}
       /\ Len(apps) <= Len(RawEntries(data))
       /\ DictGet(DictGet(data, "applist"), "apps").t # "list" => apps = <<>>

\* identifiers and names of the types the claim speaks of
PlainEntry(e) ==
    /\ \A n \in 1..Len(e.d) : e.d[n].k \in {"appid", "AppId", "AppID"} => e.d[n].val.t \in {"int", "str"}
    /\ \A n \in 1..Len(e.d) : e.d[n].k \in {"name", "Name"} => e.d[n].val.t = "str"

(* C10: the identifier of an entry is the value of its first present key     *)
(* among appid, AppId, AppID and its name the value of its first present     *)
(* name key, the empty string when none is present, whatever the values of   *)
(* the keys of higher priority: the entry gives that pair when the           *)
(* identifier is int-coercible and no pair otherwise.                        *)
C10_FirstPresentKeyWins ==
    (Extracted /\ WellFormed(data) /\ Len(EntriesOf(data)) = 1 /\ PlainEntry(EntriesOf(data)[1]))
    => /\ pc # "exited"
       /\ apps = IF PyInt(FirstPresent(EntriesOf(data)[1], IdKeys, JNull)).ok
                 THEN <<PairOf(EntriesOf(data)[1])>>
                 ELSE <<>>

\* the pairs read back from the rows after the header
ReadBack(rows) == [n \in 1..(Len(rows) - 1) |-> <<ParseInt(rows[n + 1][1]).v, rows[n + 1][2]>>]

(* C7: after a write_csv that completes, a standard CSV parser reads the     *)
(* header AppId,Name and then one row of two fields per pair, identifier     *)
(* first, equal to the pairs in their order; the end-to-end response gives   *)
(* the header and the rows 10,Half-Life and 20,Portal.                       *)
C7_CsvRoundTrip ==
    pc = "written" =>
       LET rows == ParseCsv(csv_file)
       IN  /\ Len(rows) = Len(apps) + 1
           /\ rows[1] = HeaderRow
           /\ \A n \in 2..Len(rows) : Len(rows[n]) = 2 /\ ParseInt(rows[n][1]).ok
           /\ ReadBack(rows) = apps
           /\ data = E2EResponse =>
                 rows = <<HeaderRow, << <<"1", "0">>, HalfLife >>, << <<"2", "0">>, Portal >> >>

\* the end-to-end response was extracted and written
C7_Witness ==
    /\ pc = "written"
    /\ data = E2EResponse
    /\ Len(apps) = 2
    /\ Len(csv_file) > Len(CsvRow(HeaderRow))

----------------------------------------------------------------------------
FetchFailed == Happened("stderr.attempt_failed", max_attempts)

(* C4: a run that ends after a failed fetch ends with status 2, having       *)
(* logged the failure and prompted, without extracting or writing; one that  *)
(* ends after a failed CSV write ends with status 3, having logged and       *)
(* prompted; one whose fetch and CSV write succeeded ends with status 0.     *)
C4_ExitStatusPerClass ==
    pc = "exited" =>
       /\ FetchFailed =>
             /\ exit_status = 2
             /\ Happened("stderr.fetch_failed", 0) /\ Happened("prompt", 0)
             /\ EvAt("extract") = {} /\ EvAt("write_csv") = {}
       /\ Happened("write_csv", 0) =>
             /\ exit_status = 3
             /\ Happened("stderr.csv_failed", 0) /\ Happened("prompt", 0)
       /\ Happened("write_csv", 1) => exit_status = 0

(* C5: on each of the three paths that reach the prompt, a prompt that       *)
(* cannot read (no input stream) does not crash the run: it ends with the    *)
(* status of its path, 0, 2 or 3.                                            *)
C5_PromptWithoutStdin ==
    (pc = "exited" /\ Happened("prompt", 0) /\ ~stdin_open) =>
       /\ uncaught = "none"
       /\ exit_status = (IF Happened("stderr.fetch_failed", 0) THEN 2
                         ELSE IF Happened("stderr.csv_failed", 0) THEN 3 ELSE 0)

\* the exit status of the run as decided by everything but the dump
StatusWithoutDump ==
    IF Failed(Len(served)) THEN (IF stdin_open THEN 2 ELSE 1)
    ELSE IF extract_apps(data).raised THEN 1
    ELSE IF Happened("write_csv", 0) THEN (IF stdin_open THEN 3 ELSE 1)
    ELSE 0

(* C9: the dump is attempted only when asked for, at most once, after the    *)
(* successful GET and before extraction.  When it fails the failure is       *)
(* logged and the run goes on: extraction and then the CSV write happen      *)
(* before the run ends, and the exit status is the one the same run has      *)
(* without the dump.  (Stated for responses that are JSON objects.)          *)
C9_DumpFailureNotFatal ==
    /\ \A i \in EvAt("dump") :
          /\ json_flag
          /\ EvAt("dump") = {i}
          /\ i >= 2 /\ trace[i - 1].ev = "get" /\ ~Failed(trace[i - 1].n)
          /\ \A j \in EvAt("extract") : i < j
    /\ \A i \in DOMAIN trace : (trace[i] = Ev("dump", 0) /\ data.t = "dict") =>
          /\ i + 1 <= Len(trace) /\ trace[i + 1] = Ev("stderr.json_failed", 0)
          /\ IF i + 2 <= Len(trace) THEN trace[i + 2].ev = "extract" ELSE pc = "extract"
          /\ pc = "exited" =>
                /\ \E j \in EvAt("extract") : \E k \in EvAt("write_csv") : i < j /\ j < k
                /\ exit_status = StatusWithoutDump

====
